---- MODULE Spec2Model ----
(***************************************************************************)
(* Model of backend/main.py: the Bhashini pipeline coordinator.            *)
(*                                                                         *)
(* Every request is a coroutine; its position (pc) is the await it is      *)
(* suspended at.  One action is the code that runs between two awaits.     *)
(* The transport (httpx) and the temporary storage (tempfile) are the      *)
(* environment: the transport answers a call with any response or with a   *)
(* timeout, the hosting runtime may cancel a request at any await.         *)
(* calls[r] is the record a mocked transport keeps of the remote calls of  *)
(* request r; created[r] / unlinks[r] are the counters a fake storage      *)
(* layer keeps.                                                            *)
(***************************************************************************)
EXTENDS Integers, Sequences, FiniteSets, TLC

VARIABLES pc, entry, lang, upload, tmp_path, text, translated, final_text,
          result, error, calls, created, unlinks, fs

vars == <<pc, entry, lang, upload, tmp_path, text, translated, final_text,
          result, error, calls, created, unlinks, fs>>

(***************************************************************************)
(* Bounds of the model.                                                    *)
(***************************************************************************)
NumRequests == 2
NumNames == 2

Requests == 1..NumRequests
\* the random names tempfile can draw
Names == 1..NumNames

(***************************************************************************)
(* Program constants.                                                      *)
(***************************************************************************)
PIVOT == "English"
ASR_PIPELINE_ID == "64392f96daac500b55c543cd"
TRANSLATE_URL == "https://bhashini.gov.in/ulca/apis/v1/translate"
TTS_URL == "https://bhashini.gov.in/ulca/apis/v1/synthesize"
CFG_URL == "https://meity-auth.ulcacontrib.org/ulca/apis/v0/model/getModelsPipeline"

(***************************************************************************)
(* Values.  A Python str is a sequence of one-character strings, bytes a   *)
(* sequence of integers 0..255.  A JSON value that may be a string or an   *)
(* object is tagged: Str(s) is the string s, Obj(s) the object             *)
(* {"source": s}.                                                          *)
(***************************************************************************)
Str(s) == [t |-> "str", v |-> s]
Obj(s) == [t |-> "obj", v |-> s]
IsStr(x) == x.t = "str"

IsSpace(c) == c \in {" ", "\n", "\t"}

RECURSIVE LStrip(_)
LStrip(s) == IF s # <<>> /\ IsSpace(Head(s)) THEN LStrip(Tail(s)) ELSE s

RECURSIVE RStrip(_)
RStrip(s) ==
    IF s # <<>> /\ IsSpace(s[Len(s)]) THEN RStrip(SubSeq(s, 1, Len(s) - 1)) ELSE s

\* str.strip()
Strip(s) == RStrip(LStrip(s))

\* the base64 alphabet, position i+1 holds the digit of value i; 65 is the pad
B64Alphabet ==
    << "A","B","C","D","E","F","G","H","I","J","K","L","M","N","O","P",
       "Q","R","S","T","U","V","W","X","Y","Z","a","b","c","d","e","f",
       "g","h","i","j","k","l","m","n","o","p","q","r","s","t","u","v",
       "w","x","y","z","0","1","2","3","4","5","6","7","8","9","+","/","=" >>

B64Digit(n) == B64Alphabet[n + 1]

\* base64.b64encode(b).decode()
RECURSIVE b64encode(_)
b64encode(b) ==
    IF b = <<>> THEN <<>>
    ELSE IF Len(b) = 1 THEN
        << B64Digit(b[1] \div 4), B64Digit((b[1] % 4) * 16), "=", "=" >>
    ELSE IF Len(b) = 2 THEN
        << B64Digit(b[1] \div 4),
           B64Digit((b[1] % 4) * 16 + b[2] \div 16),
           B64Digit((b[2] % 16) * 4), "=" >>
    ELSE
        << B64Digit(b[1] \div 4),
           B64Digit((b[1] % 4) * 16 + b[2] \div 16),
           B64Digit((b[2] % 16) * 4 + b[3] \div 64),
           B64Digit(b[3] % 64) >> \o b64encode(SubSeq(b, 4, Len(b)))


\* chr() of the bytes the model uses; anything else decodes to U+FFFD
Chr(b) == IF b = 77 THEN "M" ELSE IF b = 97 THEN "a" ELSE IF b = 110 THEN "n" ELSE "?"

\* httpx Response.text of a binary body
Decode(b) == [i \in 1..Len(b) |-> Chr(b[i])]

RECURSIVE LastDot(_)
LastDot(s) == IF s = <<>> THEN 0
              ELSE IF s[Len(s)] = "." THEN Len(s)
              ELSE LastDot(SubSeq(s, 1, Len(s) - 1))

\* pathlib: Path(name).suffix for a name without directory separators
PathSuffix(name) ==
    LET i == LastDot(name)
    IN  IF 1 < i /\ i < Len(name) THEN SubSeq(name, i, Len(name)) ELSE <<>>

(***************************************************************************)
(* Inputs of the requests and answers of the provider.                     *)
(***************************************************************************)
\* what a client posts to /process-text and to /process-audio
\* (filename <<>>: UploadFile.filename is None or empty)
TextInputs ==
    { [text |-> <<"a">>, language |-> "hi"],
      [text |-> <<" ", "b">>, language |-> "ta"],
      [text |-> <<"o", "k">>, language |-> "hi"] }
AudioInputs ==
    { [audio |-> <<77>>, filename |-> <<>>, language |-> "hi"],
      [audio |-> <<77, 97, 110>>, filename |-> <<"c", ".", "m", "p", "3">>,
       language |-> "ta"] }

NoResp == [kind |-> "none", status |-> 0, body |-> <<>>]
Timeout == [kind |-> "timeout", status |-> 0, body |-> <<>>]
Http(s, b) == [kind |-> "http", status |-> s, body |-> b]

\* bodies of the translation endpoint: plain text
TranslateBodies == {<<" ", "H", "i", "\n">>, <<"n", "a">>}
\* bodies of the synthesis endpoint: binary audio
TtsBodies == {<<77>>, <<77, 97>>}

\* bodies of the discovery endpoint.  json: the body parses as JSON;
\* keys: the keys present under pipelineInferenceAPIEndPoint.
AllKeys == {"callbackUrl", "serviceId", "inferenceApiKey"}
DescA == [json |-> TRUE, keys |-> AllKeys, callbackUrl |-> "https://a/infer",
          serviceId |-> "svcA", name |-> "Authorization", value |-> "keyA"]
DescB == [json |-> TRUE, keys |-> AllKeys, callbackUrl |-> "https://b/infer",
          serviceId |-> "svcB", name |-> "x-api-key", value |-> "keyB"]
DescNoSvc == [DescA EXCEPT !.keys = AllKeys \ {"serviceId"}]
DescNotJson == [DescA EXCEPT !.json = FALSE, !.keys = {}]
DiscoveryBodies == {DescA, DescB, DescNoSvc, DescNotJson}

\* bodies of the inference endpoint.  path: pipelineResponse[0].output exists.
InfStr == [json |-> TRUE, path |-> TRUE, output |-> Str(<<"o", "k">>)]
InfObj == [json |-> TRUE, path |-> TRUE, output |-> Obj(<<"o", "k">>)]
InfNoPath == [json |-> TRUE, path |-> FALSE, output |-> Str(<<>>)]
InfNotJson == [json |-> FALSE, path |-> FALSE, output |-> Str(<<>>)]
InferenceBodies == {InfStr, InfObj, InfNoPath, InfNotJson}

\* what the transport hands back: a timeout, a 200 with one of the bodies, or
\* a 500 with one of the error bodies
Responses(bodies, errbodies) ==
    {Timeout} \cup {Http(200, b) : b \in bodies} \cup {Http(500, b) : b \in errbodies}
TranslateResponses == Responses(TranslateBodies, {<<"b", "a", "d">>})
TtsResponses == Responses(TtsBodies, {<<110>>})
DiscoveryResponses == Responses(DiscoveryBodies, {DescNotJson})
InferenceResponses == Responses(InferenceBodies, {InfNotJson})

(***************************************************************************)
(* Exceptions and return values.                                           *)
(***************************************************************************)
NoError == [kind |-> "none", status |-> 0, detail |-> <<>>]
Exc(k, s, d) == [kind |-> k, status |-> s, detail |-> d]
\* fastapi.HTTPException(status_code, detail)
HTTPException(s, d) == Exc("HTTPException", s, d)

Return(v) == [ok |-> TRUE, val |-> v, err |-> NoError]
Raise(e) == [ok |-> FALSE, val |-> <<>>, err |-> e]

\* client.post(...) raising on a timeout
PostRaises(resp) == resp.kind = "timeout"
TimeoutException == Exc("TimeoutException", 0, <<>>)

\* httpx Response.raise_for_status()
raise_for_status(resp) ==
    IF resp.status \in 400..599
    THEN Raise(Exc("HTTPStatusError", resp.status, <<>>))
    ELSE Return(resp)

(***************************************************************************)
(* The stages: each is the payload it sends and what it makes of the       *)
(* response.                                                               *)
(***************************************************************************)
\* variant: the language pair in the wrong order
translate_payload_swapped(txt, src_lang, tgt_lang) ==
    [url |-> TRANSLATE_URL, inputText |-> txt,
     inputLanguage |-> tgt_lang, outputLanguage |-> src_lang]

translate_payload(txt, src_lang, tgt_lang) ==
    [url |-> TRANSLATE_URL, inputText |-> txt,
     inputLanguage |-> src_lang, outputLanguage |-> tgt_lang]

\* variant: the status of the response is not looked at
bhashini_translate_unchecked(resp) ==
    IF PostRaises(resp) THEN Raise(TimeoutException)
    ELSE Return(Strip(resp.body))

bhashini_translate(resp) ==
    IF PostRaises(resp) THEN Raise(TimeoutException)
    ELSE IF resp.status # 200
    THEN Raise(HTTPException(resp.status, <<"Translate failed: ">> \o resp.body))
    ELSE Return(Strip(resp.body))

tts_payload(txt, l) ==
    [url |-> TTS_URL, text |-> txt, language |-> l, voiceName |-> "Female1"]

bhashini_tts(resp) ==
    IF PostRaises(resp) THEN Raise(TimeoutException)
    ELSE IF resp.status # 200
    THEN Raise(HTTPException(resp.status, <<"TTS failed: ">> \o Decode(resp.body)))
    ELSE Return(resp.body)

cfg_payload ==
    [url |-> CFG_URL, pipelineId |-> ASR_PIPELINE_ID, taskType |-> "asr"]

\* variant: the endpoint and the credential are fixed values, not the resolved ones
inference_payload_static(c, l, audio_b64) ==
    [url |-> "https://a/infer", header |-> <<"Authorization", "keyA">>,
     taskType |-> "asr", sourceLanguage |-> l, serviceId |-> "svcA",
     audioFormat |-> "wav", samplingRate |-> 16000, audioContent |-> audio_b64]

inference_payload(c, l, audio_b64) ==
    [url |-> c.callbackUrl, header |-> <<c.name, c.value>>,
     taskType |-> "asr", sourceLanguage |-> l, serviceId |-> c.serviceId,
     audioFormat |-> "wav", samplingRate |-> 16000, audioContent |-> audio_b64]

\* variant: a session kept across resolutions; once an inference call was
\* made with a credential, later resolutions hand out a marked one
asr_config_session(resp) ==
    IF PostRaises(resp) THEN Raise(TimeoutException)
    ELSE IF ~raise_for_status(resp).ok THEN raise_for_status(resp)
    ELSE IF ~resp.body.json THEN Raise(Exc("JSONDecodeError", 0, <<>>))
    ELSE IF resp.body.keys # AllKeys THEN Raise(Exc("KeyError", 0, <<>>))
    ELSE IF \E q \in Requests : \E i \in 1..Len(calls[q]) : calls[q][i].stage = "inference"
    THEN Return([resp.body EXCEPT !.value = "stale"])
    ELSE Return(resp.body)

\* bhashini_asr from the discovery response to the parsed configuration
asr_config(resp) ==
    IF PostRaises(resp) THEN Raise(TimeoutException)
    ELSE IF ~raise_for_status(resp).ok THEN raise_for_status(resp)
    ELSE IF ~resp.body.json THEN Raise(Exc("JSONDecodeError", 0, <<>>))
    ELSE IF resp.body.keys # AllKeys THEN Raise(Exc("KeyError", 0, <<>>))
    ELSE Return(resp.body)

\* variant: a missing output path yields an empty transcript
asr_output_default(resp) ==
    IF PostRaises(resp) THEN Raise(TimeoutException)
    ELSE IF ~raise_for_status(resp).ok THEN raise_for_status(resp)
    ELSE IF ~resp.body.json
    THEN Raise(HTTPException(500, <<"ASR parse error: ", "JSONDecodeError">>))
    ELSE IF ~resp.body.path THEN Return(Str(<<>>))
    ELSE Return(resp.body.output)

\* bhashini_asr from the inference response to its return value
asr_output(resp) ==
    IF PostRaises(resp) THEN Raise(TimeoutException)
    ELSE IF ~raise_for_status(resp).ok THEN raise_for_status(resp)
    ELSE IF ~resp.body.json
    THEN Raise(HTTPException(500, <<"ASR parse error: ", "JSONDecodeError">>))
    ELSE IF ~resp.body.path
    THEN Raise(HTTPException(500, <<"ASR parse error: ", "KeyError">>))
    ELSE Return(resp.body.output)

\* variant: the response record is built without validation
BackendResponseUnvalidated(original, trans, final, audio_b64) ==
    Return([original_text |-> original, translated_text |-> Str(trans),
            final_text |-> Str(final), audio_base64 |-> Str(audio_b64)])

\* variant: the fields are stripped of surrounding whitespace on validation
BackendResponseStripped(original, trans, final, audio_b64) ==
    IF IsStr(original)
    THEN Return([original_text |-> Str(Strip(original.v)), translated_text |-> Str(trans),
                 final_text |-> Str(final), audio_base64 |-> Str(audio_b64)])
    ELSE Raise(Exc("ValidationError", 0, <<>>))

\* BackendResponse(...): pydantic accepts only str for a str field
BackendResponse(original, trans, final, audio_b64) ==
    IF IsStr(original)
    THEN Return([original_text |-> original, translated_text |-> Str(trans),
                 final_text |-> Str(final), audio_base64 |-> Str(audio_b64)])
    ELSE Raise(Exc("ValidationError", 0, <<>>))

(***************************************************************************)
(* Temporary storage.  A path is a random name and the suffix asked for;   *)
(* fs maps the paths that exist to the file there.  owner is the request   *)
(* whose NamedTemporaryFile call created the file.                         *)
(***************************************************************************)
NoPath == [n |-> 0, suffix |-> <<>>]

\* line 177: Path(file.filename or "audio").suffix or ".wav"
SuffixFor(filename) ==
    LET name == IF filename = <<>> THEN <<"a", "u", "d", "i", "o">> ELSE filename
    IN  IF PathSuffix(name) = <<>> THEN <<".", "w", "a", "v">> ELSE PathSuffix(name)

\* variant: a name is drawn without looking whether it exists
AnyPaths(files, suffix) == [n : Names, suffix : {suffix}]

\* tempfile draws names until one does not exist (O_EXCL)
FreshPaths(files, suffix) ==
    {p \in [n : Names, suffix : {suffix}] : p \notin DOMAIN files}

Create(files, p, r) ==
    [q \in DOMAIN files \cup {p} |->
        IF q = p THEN [owner |-> r, content |-> <<>>, open |-> TRUE] ELSE files[q]]

\* tmp.write(data) followed by the close at the end of the with block
WriteClose(files, p, data) ==
    [files EXCEPT ![p] = [@ EXCEPT !.content = data, !.open = FALSE]]

\* the close at the end of the with block when its body raised
CloseOnly(files, p) == [files EXCEPT ![p] = [@ EXCEPT !.open = FALSE]]

\* Path.unlink(missing_ok=True)
Unlink(files, p) == [q \in DOMAIN files \ {p} |-> files[q]]

(***************************************************************************)
(* State.                                                                  *)
(***************************************************************************)
Awaiting == {"reading", "discovery", "inference", "translate1", "translate2", "tts"}
Remote == Awaiting \ {"reading"}
Terminal == {"done", "failed", "cancelled"}

Init ==
    /\ pc = [r \in Requests |-> "idle"]
    /\ entry = [r \in Requests |-> "none"]
    /\ lang = [r \in Requests |-> ""]
    /\ upload = [r \in Requests |-> <<>>]
    /\ tmp_path = [r \in Requests |-> NoPath]
    /\ text = [r \in Requests |-> Str(<<>>)]
    /\ translated = [r \in Requests |-> <<>>]
    /\ final_text = [r \in Requests |-> <<>>]
    /\ result = [r \in Requests |-> <<>>]
    /\ error = [r \in Requests |-> NoError]
    /\ calls = [r \in Requests |-> <<>>]
    /\ created = [r \in Requests |-> 0]
    /\ unlinks = [r \in Requests |-> 0]
    /\ fs = [p \in {} |-> 0]

\* the mocked transport: a call is recorded when sent and settled when the
\* coroutine resumes (ok: the stage returned; failed: it raised) or is cancelled
Call(stage, req) == [stage |-> stage, req |-> req, state |-> "pending", resp |-> NoResp]
Send(r, stage, req) == calls' = [calls EXCEPT ![r] = Append(@, Call(stage, req))]
Settled(log, st, resp) ==
    [log EXCEPT ![Len(log)] = [stage |-> @.stage, req |-> @.req, state |-> st, resp |-> resp]]
\* variant: the next call is sent while the previous one is still awaited
SettleSendPipelined(r, resp, stage, req) ==
    calls' = [calls EXCEPT ![r] = Append(@, Call(stage, req))]
SettleSend(r, resp, stage, req) ==
    calls' = [calls EXCEPT ![r] = Append(Settled(@, "ok", resp), Call(stage, req))]
Settle(r, st, resp) == calls' = [calls EXCEPT ![r] = Settled(@, st, resp)]

\* lines 181-185: the finally block of process_audio_pipeline, which every
\* exit of the try block runs; the text entry point has none
Finally(r) ==
    IF entry[r] = "audio"
    THEN /\ fs' = Unlink(fs, tmp_path[r])
         /\ unlinks' = [unlinks EXCEPT ![r] = @ + 1]
    ELSE UNCHANGED <<fs, unlinks>>

\* variant: the file is removed after the try block instead of in a finally
ExitUnlinkOnReturn(r, to, e) ==
    /\ pc' = [pc EXCEPT ![r] = to]
    /\ error' = [error EXCEPT ![r] = e]
    /\ IF to = "done" THEN Finally(r) ELSE UNCHANGED <<fs, unlinks>>

\* the request ends: with an exception e, or (e = NoError) by returning
Exit(r, to, e) ==
    /\ pc' = [pc EXCEPT ![r] = to]
    /\ error' = [error EXCEPT ![r] = e]
    /\ Finally(r)

(***************************************************************************)
(* process_text_pipeline                                                   *)
(***************************************************************************)
\* POST /process-text: process_text_pipeline up to its first await
StartText(r) ==
    /\ pc[r] = "idle"
    /\ \E request \in TextInputs :
        /\ entry' = [entry EXCEPT ![r] = "text"]
        /\ text' = [text EXCEPT ![r] = Str(request.text)]
        /\ lang' = [lang EXCEPT ![r] = request.language]
        /\ Send(r, "translate",
                translate_payload(Str(request.text), request.language, PIVOT))
    /\ pc' = [pc EXCEPT ![r] = "translate1"]
    /\ UNCHANGED <<upload, tmp_path, translated, final_text, result, error,
                   created, unlinks, fs>>

\* variant: a failed forward translation is sent again
Translate1RecvRetry(r) ==
    /\ pc[r] = "translate1"
    /\ \E resp \in TranslateResponses :
        LET o == bhashini_translate(resp) IN
        IF o.ok
        THEN /\ translated' = [translated EXCEPT ![r] = o.val]
             /\ SettleSend(r, resp, "translate", translate_payload(Str(o.val), PIVOT, lang[r]))
             /\ pc' = [pc EXCEPT ![r] = "translate2"]
        ELSE /\ calls' = [calls EXCEPT ![r] =
                    Append(Settled(@, "failed", resp),
                           Call("translate", translate_payload(text[r], lang[r], PIVOT)))]
             /\ UNCHANGED <<translated, pc>>
    /\ UNCHANGED <<entry, lang, upload, tmp_path, text, final_text, result, created,
                   error, unlinks, fs>>

\* line 162 resumes; line 164 sends the reverse translation
Translate1Recv(r) ==
    /\ pc[r] = "translate1"
    /\ \E resp \in TranslateResponses :
        LET o == bhashini_translate(resp) IN
        IF o.ok
        THEN /\ translated' = [translated EXCEPT ![r] = o.val]
             /\ SettleSend(r, resp, "translate", translate_payload(Str(o.val), PIVOT, lang[r]))
             /\ pc' = [pc EXCEPT ![r] = "translate2"]
             /\ UNCHANGED <<error, unlinks, fs>>
        ELSE /\ Settle(r, "failed", resp)
             /\ Exit(r, "failed", o.err)
             /\ UNCHANGED translated
    /\ UNCHANGED <<entry, lang, upload, tmp_path, text, final_text, result, created>>

\* variant: the synthesis is asked for the forward translation
Translate2RecvTtsOnTranslated(r) ==
    /\ pc[r] = "translate2"
    /\ \E resp \in TranslateResponses :
        LET o == bhashini_translate(resp) IN
        IF o.ok
        THEN /\ final_text' = [final_text EXCEPT ![r] = o.val]
             /\ SettleSend(r, resp, "tts", tts_payload(translated[r], lang[r]))
             /\ pc' = [pc EXCEPT ![r] = "tts"]
             /\ UNCHANGED <<error, unlinks, fs>>
        ELSE /\ Settle(r, "failed", resp)
             /\ Exit(r, "failed", o.err)
             /\ UNCHANGED final_text
    /\ UNCHANGED <<entry, lang, upload, tmp_path, text, translated, result, created>>

\* line 164 resumes; line 165 sends the synthesis
Translate2Recv(r) ==
    /\ pc[r] = "translate2"
    /\ \E resp \in TranslateResponses :
        LET o == bhashini_translate(resp) IN
        IF o.ok
        THEN /\ final_text' = [final_text EXCEPT ![r] = o.val]
             /\ SettleSend(r, resp, "tts", tts_payload(o.val, lang[r]))
             /\ pc' = [pc EXCEPT ![r] = "tts"]
             /\ UNCHANGED <<error, unlinks, fs>>
        ELSE /\ Settle(r, "failed", resp)
             /\ Exit(r, "failed", o.err)
             /\ UNCHANGED final_text
    /\ UNCHANGED <<entry, lang, upload, tmp_path, text, translated, result, created>>

\* line 165 resumes; lines 166-173 build the response
TtsRecv(r) ==
    /\ pc[r] = "tts"
    /\ \E resp \in TtsResponses :
        LET o == bhashini_tts(resp) IN
        IF o.ok
        THEN LET br == BackendResponse(text[r], translated[r], final_text[r],
                                       b64encode(o.val)) IN
             /\ Settle(r, "ok", resp)
             /\ IF br.ok
                THEN /\ result' = [result EXCEPT ![r] = <<br.val>>]
                     /\ Exit(r, "done", NoError)
                ELSE /\ Exit(r, "failed", br.err)
                     /\ UNCHANGED result
        ELSE /\ Settle(r, "failed", resp)
             /\ Exit(r, "failed", o.err)
             /\ UNCHANGED result
    /\ UNCHANGED <<entry, lang, upload, tmp_path, text, translated, final_text, created>>

(***************************************************************************)
(* process_audio_pipeline and bhashini_asr                                 *)
(***************************************************************************)
\* POST /process-audio: lines 177-179 up to the await of file.read(); the
\* temporary file exists, open and empty
StartAudio(r) ==
    /\ pc[r] = "idle"
    /\ \E file \in AudioInputs :
        \E p \in FreshPaths(fs, SuffixFor(file.filename)) :
            /\ entry' = [entry EXCEPT ![r] = "audio"]
            /\ upload' = [upload EXCEPT ![r] = file.audio]
            /\ lang' = [lang EXCEPT ![r] = file.language]
            /\ tmp_path' = [tmp_path EXCEPT ![r] = p]
            /\ fs' = Create(fs, p, r)
    /\ created' = [created EXCEPT ![r] = @ + 1]
    /\ pc' = [pc EXCEPT ![r] = "reading"]
    /\ UNCHANGED <<text, translated, final_text, result, error, calls, unlinks>>

\* file.read() returns: line 179 writes, the with block closes the file,
\* line 182 enters the try block and bhashini_asr sends the discovery call
UploadRead(r) ==
    /\ pc[r] = "reading"
    /\ fs' = WriteClose(fs, tmp_path[r], upload[r])
    /\ Send(r, "discovery", cfg_payload)
    /\ pc' = [pc EXCEPT ![r] = "discovery"]
    /\ UNCHANGED <<entry, lang, upload, tmp_path, text, translated, final_text,
                   result, error, created, unlinks>>

\* file.read() or tmp.write() raises: the with block closes the file and the
\* exception leaves process_audio_pipeline before its try block is entered
UploadFails(r) ==
    /\ pc[r] = "reading"
    /\ fs' = CloseOnly(fs, tmp_path[r])
    /\ pc' = [pc EXCEPT ![r] = "failed"]
    /\ error' = [error EXCEPT ![r] = Exc("OSError", 0, <<>>)]
    /\ UNCHANGED <<entry, lang, upload, tmp_path, text, translated, final_text,
                   result, calls, created, unlinks>>

\* line 127 resumes; lines 128-136 parse the configuration and read the
\* file; line 153 sends the inference call
DiscoveryRecv(r) ==
    /\ pc[r] = "discovery"
    /\ \E resp \in DiscoveryResponses :
        LET o == asr_config(resp) IN
        IF o.ok /\ tmp_path[r] \in DOMAIN fs
        THEN /\ SettleSend(r, resp, "inference",
                    inference_payload(o.val, lang[r], b64encode(fs[tmp_path[r]].content)))
             /\ pc' = [pc EXCEPT ![r] = "inference"]
             /\ UNCHANGED <<error, unlinks, fs>>
        ELSE /\ Settle(r, "failed", resp)
             /\ Exit(r, "failed",
                     IF o.ok THEN Exc("FileNotFoundError", 0, <<>>) ELSE o.err)
    /\ UNCHANGED <<entry, lang, upload, tmp_path, text, translated, final_text,
                   result, created>>

\* variant: a failure of bhashini_asr is swallowed and an empty transcript used
InferenceRecvSwallow(r) ==
    /\ pc[r] = "inference"
    /\ \E resp \in InferenceResponses :
        LET o == asr_output(resp)
            t == IF o.ok THEN o.val ELSE Str(<<>>)
        IN  /\ text' = [text EXCEPT ![r] = t]
            /\ SettleSend(r, resp, "translate", translate_payload(t, lang[r], PIVOT))
            /\ pc' = [pc EXCEPT ![r] = "translate1"]
            /\ UNCHANGED <<error, unlinks, fs>>
    /\ UNCHANGED <<entry, lang, upload, tmp_path, translated, final_text,
                   result, created>>

\* line 153 resumes; lines 154-158 return the transcript; line 183 calls
\* process_text_pipeline, which sends the forward translation
InferenceRecv(r) ==
    /\ pc[r] = "inference"
    /\ \E resp \in InferenceResponses :
        LET o == asr_output(resp) IN
        IF o.ok
        THEN /\ text' = [text EXCEPT ![r] = o.val]
             /\ SettleSend(r, resp, "translate", translate_payload(o.val, lang[r], PIVOT))
             /\ pc' = [pc EXCEPT ![r] = "translate1"]
             /\ UNCHANGED <<error, unlinks, fs>>
        ELSE /\ Settle(r, "failed", resp)
             /\ Exit(r, "failed", o.err)
             /\ UNCHANGED text
    /\ UNCHANGED <<entry, lang, upload, tmp_path, translated, final_text,
                   result, created>>

(***************************************************************************)
(* Cancellation: the hosting runtime throws CancelledError into the        *)
(* coroutine at the await it is suspended at.                              *)
(***************************************************************************)
Cancel(r) ==
    /\ pc[r] \in Awaiting
    /\ pc' = [pc EXCEPT ![r] = "cancelled"]
    /\ error' = [error EXCEPT ![r] = Exc("CancelledError", 0, <<>>)]
    /\ IF pc[r] = "reading"
       THEN /\ fs' = CloseOnly(fs, tmp_path[r])
            /\ UNCHANGED <<unlinks, calls>>
       ELSE /\ Finally(r)
            /\ Settle(r, "abandoned", NoResp)
    /\ UNCHANGED <<entry, lang, upload, tmp_path, text, translated, final_text,
                   result, created>>

Next ==
    \E r \in Requests :
        \/ StartText(r)
        \/ Translate1Recv(r)
        \/ Translate2Recv(r)
        \/ TtsRecv(r)
        \/ StartAudio(r)
        \/ UploadRead(r)
        \/ UploadFails(r)
        \/ DiscoveryRecv(r)
        \/ InferenceRecv(r)
        \/ Cancel(r)

Spec == Init /\ [][Next]_vars

TypeOK ==
    /\ pc \in [Requests -> {"idle"} \cup Awaiting \cup Terminal]
    /\ \A r \in Requests : Len(result[r]) <= 1
    /\ \A p \in DOMAIN fs : fs[p].owner \in Requests

(***************************************************************************)
(* What the caller of a route receives when the pipeline raised e: the     *)
(* routes (lines 192-202) catch nothing, so an HTTPException becomes a      *)
(* response with its status and detail and anything else the generic 500.   *)
(***************************************************************************)
CallerSees(e) ==
    IF e.kind = "HTTPException"
    THEN [class |-> "structured", status |-> e.status, detail |-> e.detail]
    ELSE [class |-> "generic", status |-> 500, detail |-> <<"Internal Server Error">>]

(***************************************************************************)
(* Vocabulary of the properties.                                           *)
(***************************************************************************)
\* the temporary files request r created that still exist
Owned(r) == {p \in DOMAIN fs : fs[p].owner = r}
\* the stage names of the calls of request r, in the order they were sent
Stages(r) == [i \in 1..Len(calls[r]) |-> calls[r][i].stage]
LastCall(r) == calls[r][Len(calls[r])]
IsTranslate(c) == c.stage = "translate"
TranslateCalls(r) == SelectSeq(calls[r], IsTranslate)
CountOf(r, stage) == Cardinality({i \in 1..Len(calls[r]) : calls[r][i].stage = stage})
\* bhashini_asr was invoked: steps 2-3 of the audio entry point were entered
AsrInvoked(r) == entry[r] = "audio" /\ Len(calls[r]) > 0
IsPrefix(s, t) == Len(s) <= Len(t) /\ SubSeq(t, 1, Len(s)) = s
StageOrder(e) ==
    IF e = "audio" THEN <<"discovery", "inference", "translate", "translate", "tts">>
    ELSE <<"translate", "translate", "tts">>

(***************************************************************************)
(* Properties.                                                             *)
(***************************************************************************)

\* C1: in the audio entry point the temporary file exists, closed and holding
\* the whole upload, from the moment bhashini_asr is invoked until the call
\* ends; it is not unlinked while the call runs, and when the call returns or
\* re-raises after the transcriber, a translation or the synthesis succeeded
\* or raised, it has been unlinked exactly once and is gone.
C1_ResourceLifecycle ==
    \A r \in Requests :
        AsrInvoked(r) =>
            /\ created[r] = 1
            /\ pc[r] \in Remote =>
                /\ unlinks[r] = 0
                /\ tmp_path[r] \in DOMAIN fs
                /\ fs[tmp_path[r]] = [owner |-> r, content |-> upload[r], open |-> FALSE]
            /\ pc[r] \in {"done", "failed"} =>
                /\ unlinks[r] = 1
                /\ Owned(r) = {}

\* C1 witness: an audio request whose synthesis call raised, file released once
C1_Witness ==
    \E r \in Requests :
        /\ AsrInvoked(r)
        /\ pc[r] = "failed"
        /\ LastCall(r).stage = "tts"
        /\ LastCall(r).state = "failed"
        /\ unlinks[r] = 1
        /\ Owned(r) = {}

\* C2: every audio request creates exactly one temporary file, and when the
\* request has completed or failed on any path, a failure of reading the
\* upload or of writing it into the file included, that file does not exist.
C2_ReleasedOnEveryExit ==
    \A r \in Requests :
        entry[r] = "audio" =>
            /\ created[r] = 1
            /\ pc[r] \in {"done", "failed"} => Owned(r) = {}

\* C3: an audio request cancelled at any await after its temporary file was
\* created, the await of the upload read included, leaves no call in flight
\* and no temporary file behind.
C3_CancelReleases ==
    \A r \in Requests :
        (entry[r] = "audio" /\ pc[r] = "cancelled") =>
            /\ Owned(r) = {}
            /\ \A i \in 1..Len(calls[r]) : calls[r][i].state # "pending"

\* C4: once process_text_pipeline has produced final_text (the synthesis call
\* is sent in the same step), the translation calls of the request are exactly
\* two, both returned, the first with (text, language, PIVOT) and the second
\* with (output of the first, PIVOT, language).
C4_TwoTranslationsInOrder ==
    \A r \in Requests :
        CountOf(r, "tts") > 0 =>
            LET tc == TranslateCalls(r) IN
            /\ Len(tc) = 2
            /\ tc[1].state = "ok" /\ tc[2].state = "ok"
            /\ tc[1].req.inputText = text[r]
            /\ tc[1].req.inputLanguage = lang[r]
            /\ tc[1].req.outputLanguage = PIVOT
            /\ translated[r] = Strip(tc[1].resp.body)
            /\ tc[2].req.inputText = Str(translated[r])
            /\ tc[2].req.inputLanguage = PIVOT
            /\ tc[2].req.outputLanguage = lang[r]
            /\ final_text[r] = Strip(tc[2].resp.body)

\* C4 witness: a text request that returned, whose forward translation
\* differs from its input
C4_Witness ==
    \E r \in Requests :
        /\ entry[r] = "text"
        /\ pc[r] = "done"
        /\ Len(TranslateCalls(r)) = 2
        /\ Str(translated[r]) # text[r]
        /\ lang[r] # PIVOT

\* C5: a translation call answered with a non-success status is the last
\* call of its request (no reverse translation after a failed forward one, no
\* synthesis), and the request has failed with the translation error that
\* carries that status and that body.
C5_TranslationFailure ==
    \A r \in Requests :
        \A i \in 1..Len(calls[r]) :
            LET c == calls[r][i] IN
            (c.stage = "translate" /\ c.resp.kind = "http" /\ c.resp.status \notin 200..299) =>
                /\ i = Len(calls[r])
                /\ pc[r] = "failed"
                /\ result[r] = <<>>
                /\ error[r].kind = "HTTPException"
                /\ error[r].status = c.resp.status
                /\ error[r].detail = <<"Translate failed: ">> \o c.resp.body

\* C5 witness: the reverse translation was answered 500
C5_Witness ==
    \E r \in Requests :
        /\ Len(TranslateCalls(r)) = 2
        /\ LastCall(r).stage = "translate"
        /\ LastCall(r).resp.kind = "http"
        /\ LastCall(r).resp.status = 500
        /\ pc[r] = "failed"

\* C6: a request has a result record exactly when it returned; then every
\* stage the request needs was called and returned and all four fields are
\* strings; a request that failed or was cancelled has no result record.
C6_NoPartialResult ==
    \A r \in Requests :
        /\ (pc[r] = "done") = (result[r] # <<>>)
        /\ result[r] # <<>> =>
            /\ error[r] = NoError
            /\ Stages(r) = StageOrder(entry[r])
            /\ \A i \in 1..Len(calls[r]) : calls[r][i].state = "ok"
            /\ IsStr(result[r][1].original_text)
            /\ IsStr(result[r][1].translated_text)
            /\ IsStr(result[r][1].final_text)
            /\ IsStr(result[r][1].audio_base64)

\* C6 witnesses: an audio request that returned its result
C6_Witness ==
    \E r \in Requests :
        /\ entry[r] = "audio"
        /\ pc[r] = "done"
        /\ result[r] # <<>>

\* C7: a request calls discovery, inference and synthesis at most once each
\* and translation at most twice, and a call that failed is the last call of
\* its request.
C7_NoRetryAbortOnFailure ==
    \A r \in Requests :
        /\ CountOf(r, "discovery") <= 1
        /\ CountOf(r, "inference") <= 1
        /\ CountOf(r, "tts") <= 1
        /\ CountOf(r, "translate") <= 2
        /\ \A i \in 1..Len(calls[r]) :
            calls[r][i].state = "failed" => (i = Len(calls[r]) /\ pc[r] = "failed")

\* C7 witness: the forward translation of an audio request failed
C7_Witness ==
    \E r \in Requests :
        /\ entry[r] = "audio"
        /\ Len(calls[r]) = 3
        /\ LastCall(r).stage = "translate"
        /\ LastCall(r).state = "failed"

\* C8: the calls of a request are sent in the order discovery, inference,
\* translation, translation, synthesis (the first two for audio only), and
\* every call but the last one sent has returned: at most one is in flight.
C8_StrictlySequential ==
    \A r \in Requests :
        /\ IsPrefix(Stages(r), StageOrder(entry[r]))
        /\ \A i \in 1..Len(calls[r]) - 1 : calls[r][i].state = "ok"
        /\ pc[r] \in Remote <=> (Len(calls[r]) > 0 /\ LastCall(r).state = "pending")

\* C8 witness: the synthesis call of an audio request is in flight
C8_Witness ==
    \E r \in Requests :
        /\ entry[r] = "audio"
        /\ Len(calls[r]) = 5
        /\ LastCall(r).state = "pending"

\* C9: audio requests in progress have different temporary files; while the
\* transcriber or a later stage of a request runs, its file is its own and
\* holds the bytes it uploaded, and those are the bytes its inference call
\* carries; a file that exists belongs to a request still in progress or to
\* one that ended before its try block.
C9_ExclusiveResource ==
    /\ \A r1, r2 \in Requests :
        (r1 # r2 /\ pc[r1] \in Awaiting /\ pc[r2] \in Awaiting
            /\ entry[r1] = "audio" /\ entry[r2] = "audio") => tmp_path[r1] # tmp_path[r2]
    /\ \A r \in Requests :
        (entry[r] = "audio" /\ pc[r] \in Remote) =>
            /\ tmp_path[r] \in DOMAIN fs
            /\ fs[tmp_path[r]].owner = r
            /\ fs[tmp_path[r]].content = upload[r]
    /\ \A r \in Requests : \A i \in 1..Len(calls[r]) :
        calls[r][i].stage = "inference" =>
            calls[r][i].req.audioContent = b64encode(upload[r])
    /\ \A p \in DOMAIN fs :
        /\ tmp_path[fs[p].owner] = p
        /\ pc[fs[p].owner] \in Awaiting \/ Len(calls[fs[p].owner]) = 0

\* C9 witness: two audio requests with different uploads, both with their
\* inference call in flight
C9_Witness ==
    \E r1, r2 \in Requests :
        /\ r1 # r2
        /\ pc[r1] = "inference" /\ pc[r2] = "inference"
        /\ upload[r1] # upload[r2]

\* C10: a discovery response with status 200 whose body lacks an expected
\* key makes the request fail with a structured pipeline error (the only one
\* this program has is HTTPException), and no inference call is made.
C10_MalformedDiscovery ==
    \A r \in Requests : \A i \in 1..Len(calls[r]) :
        LET c == calls[r][i] IN
        (c.stage = "discovery" /\ c.resp.kind = "http" /\ c.resp.status = 200
            /\ c.resp.body.json /\ c.resp.body.keys # AllKeys) =>
            /\ CountOf(r, "inference") = 0
            /\ pc[r] = "failed"
            /\ error[r].kind = "HTTPException"

\* the response of call i of request r is a non-success status
NonSuccess(c) == c.resp.kind = "http" /\ c.resp.status \notin 200..299
TimedOut(c) == c.resp.kind = "timeout"

\* C11: whenever one request failed because call i timed out and another
\* failed because its call i of the same stage was answered with a
\* non-success status, both callers receive the same failure, and in both
\* requests the failed call is the last one.
C11_TimeoutLikeNonSuccess ==
    \A r1, r2 \in Requests :
        \A i \in 1..Len(calls[r1]) :
            (/\ i <= Len(calls[r2])
             /\ entry[r1] = entry[r2]
             /\ TimedOut(calls[r1][i])
             /\ NonSuccess(calls[r2][i])) =>
                /\ i = Len(calls[r1]) /\ i = Len(calls[r2])
                /\ pc[r1] = "failed" /\ pc[r2] = "failed"
                /\ CallerSees(error[r1]).class = CallerSees(error[r2]).class

\* C12: an inference response with status 200 whose body does not parse or
\* lacks pipelineResponse[0].output makes the request fail with the parse
\* error, which names the cause; no transcript is returned and no
\* translation is called.
C12_InferenceParseError ==
    \A r \in Requests : \A i \in 1..Len(calls[r]) :
        LET c == calls[r][i] IN
        (c.stage = "inference" /\ c.resp.kind = "http" /\ c.resp.status = 200
            /\ (~c.resp.body.json \/ ~c.resp.body.path)) =>
            /\ i = Len(calls[r])
            /\ c.state = "failed"
            /\ pc[r] = "failed"
            /\ error[r].kind = "HTTPException"
            /\ Len(error[r].detail) = 2
            /\ error[r].detail[1] = "ASR parse error: "
            /\ error[r].detail[2] \in {"KeyError", "JSONDecodeError"}

\* C12 witness: the inference answered 200 without the output path
C12_Witness ==
    \E r \in Requests :
        /\ Len(calls[r]) = 2
        /\ LastCall(r).stage = "inference"
        /\ LastCall(r).resp.kind = "http"
        /\ LastCall(r).resp.status = 200
        /\ LastCall(r).resp.body.json
        /\ ~LastCall(r).resp.body.path
        /\ pc[r] = "failed"

\* C13: the transcript bhashini_asr returns is a string for both shapes of
\* pipelineResponse[0].output: the string itself, or the value of the source
\* field of the object.
C13_ScalarTranscript ==
    \A r \in Requests :
        (Len(calls[r]) >= 2 /\ calls[r][2].stage = "inference" /\ calls[r][2].state = "ok") =>
            /\ IsStr(text[r])
            /\ text[r].v = calls[r][2].resp.body.output.v

\* C14: a request that returned reports as original_text exactly the text
\* process_text_pipeline was given, which for the text entry point is the
\* text of the request, surrounding whitespace included, and which is the
\* text the forward translation was asked for.
C14_OriginalTextUnchanged ==
    \A r \in Requests :
        pc[r] = "done" =>
            /\ result[r][1].original_text = text[r]
            /\ TranslateCalls(r)[1].req.inputText = result[r][1].original_text
            /\ entry[r] = "text" =>
                \E request \in TextInputs :
                    /\ result[r][1].original_text = Str(request.text)
                    /\ lang[r] = request.language

\* C14 witness: a text request with leading whitespace in its text returned
C14_Witness ==
    \E r \in Requests :
        /\ entry[r] = "text"
        /\ pc[r] = "done"
        /\ text[r] = Str(<<" ", "b">>)

\* C15: the result of a request that returned is original_text = text,
\* translated_text = the stripped body of the translation of (text, language,
\* PIVOT), final_text = the stripped body of the translation of
\* (translated_text, PIVOT, language), audio_base64 = base64 of the body of
\* the one synthesis call, which was asked for (final_text, language).
C15_ResultComposition ==
    \A r \in Requests :
        pc[r] = "done" =>
            LET tc == TranslateCalls(r)
                syn == LastCall(r)
                res == result[r][1]
            IN  /\ res.original_text = text[r]
                /\ tc[1].req.inputText = text[r]
                /\ tc[1].req.inputLanguage = lang[r]
                /\ tc[1].req.outputLanguage = PIVOT
                /\ res.translated_text = Str(Strip(tc[1].resp.body))
                /\ tc[2].req.inputText = res.translated_text
                /\ tc[2].req.inputLanguage = PIVOT
                /\ tc[2].req.outputLanguage = lang[r]
                /\ res.final_text = Str(Strip(tc[2].resp.body))
                /\ CountOf(r, "tts") = 1
                /\ syn.stage = "tts"
                /\ Str(syn.req.text) = res.final_text
                /\ syn.req.language = lang[r]
                /\ res.audio_base64 = Str(b64encode(syn.resp.body))

\* C15 witness: a text request returned whose three texts differ pairwise
C15_Witness ==
    \E r \in Requests :
        /\ entry[r] = "text"
        /\ pc[r] = "done"
        /\ result[r][1].original_text # result[r][1].translated_text
        /\ result[r][1].translated_text # result[r][1].final_text
        /\ result[r][1].original_text # result[r][1].final_text
        /\ result[r][1].audio_base64 = Str(<<"T", "W", "E", "=">>)

\* C16: a discovery or inference call answered with a non-success status
\* makes the request fail with an error that carries the upstream status,
\* and the caller receives a structured failure with that status, not the
\* generic internal error.
C16_AsrStatusSurfaced ==
    \A r \in Requests : \A i \in 1..Len(calls[r]) :
        LET c == calls[r][i] IN
        (c.stage \in {"discovery", "inference"} /\ NonSuccess(c)) =>
            /\ i = Len(calls[r])
            /\ pc[r] = "failed"
            /\ error[r].status = c.resp.status
            /\ CallerSees(error[r]).class = "structured"
            /\ CallerSees(error[r]).status = c.resp.status

\* the descriptor an inference call was made with
Descriptor(req) == <<req.url, req.serviceId, req.header>>
HasInference(r) == Len(calls[r]) >= 2 /\ calls[r][2].stage = "inference"
\* everything request q can observe of itself
Local(q) == <<pc[q], entry[q], lang[q], upload[q], tmp_path[q], text[q], translated[q],
              final_text[q], result[q], error[q], calls[q], created[q], unlinks[q]>>
SameDiscoverySameDescriptor ==
    \A r1, r2 \in Requests :
        (HasInference(r1) /\ HasInference(r2) /\ calls[r1][1].resp = calls[r2][1].resp) =>
            Descriptor(calls[r1][2].req) = Descriptor(calls[r2][2].req)

\* C17: in every step, two requests whose discovery calls got the same
\* response have made their inference calls with the same descriptor
\* (endpoint, service id, credential name and value), whichever resolved
\* first; and the step in which a request resolves its descriptor changes
\* nothing but that request's position and call record: not the files, not
\* any other request.
C17_ResolutionIdempotentStateless ==
    [][ /\ SameDiscoverySameDescriptor'
        /\ \A r \in Requests :
            (pc[r] = "discovery" /\ pc'[r] = "inference") =>
                /\ fs' = fs
                /\ \A q \in Requests \ {r} : Local(q)' = Local(q)
                /\ <<entry[r], lang[r], upload[r], tmp_path[r], text[r], translated[r],
                     final_text[r], result[r], error[r], created[r], unlinks[r]>>'
                   = <<entry[r], lang[r], upload[r], tmp_path[r], text[r], translated[r],
                       final_text[r], result[r], error[r], created[r], unlinks[r]>>
      ]_vars

\* C17 witness: two requests resolved against the same discovery response
C17_Witness ==
    \E r1, r2 \in Requests :
        /\ r1 # r2
        /\ HasInference(r1) /\ HasInference(r2)
        /\ calls[r1][1].resp = calls[r2][1].resp
        /\ pc[r1] = "done"
        /\ pc[r2] = "inference"

\* C18: the first call of every audio request is its own discovery call,
\* and its inference call goes to the callback URL, with the service id and
\* the credential header, of the response to that discovery call.
C18_OwnFreshDescriptor ==
    \A r \in Requests :
        /\ AsrInvoked(r) => calls[r][1].stage = "discovery"
        /\ CountOf(r, "inference") > 0 =>
            /\ HasInference(r)
            /\ calls[r][1].state = "ok"
            /\ calls[r][1].req = cfg_payload
            /\ calls[r][2].req.url = calls[r][1].resp.body.callbackUrl
            /\ calls[r][2].req.serviceId = calls[r][1].resp.body.serviceId
            /\ calls[r][2].req.header =
                    <<calls[r][1].resp.body.name, calls[r][1].resp.body.value>>

\* C18 witness: two requests with inference calls in flight to different
\* endpoints
C18_Witness ==
    \E r1, r2 \in Requests :
        /\ pc[r1] = "inference" /\ pc[r2] = "inference"
        /\ calls[r1][2].req.url # calls[r2][2].req.url

\* the response makes bhashini_asr raise
AsrBadResponse(c) ==
    \/ TimedOut(c)
    \/ NonSuccess(c)
    \/ /\ c.resp.kind = "http"
       /\ c.stage = "discovery"
       /\ ~(c.resp.body.json /\ c.resp.body.keys = AllKeys)
    \/ /\ c.resp.kind = "http"
       /\ c.stage = "inference"
       /\ ~(c.resp.body.json /\ c.resp.body.path)

\* C19: an audio request that returned gave process_text_pipeline the
\* transcript of its inference response and its own language, and its calls
\* and result are those of any text request with that text and language
\* whose translation and synthesis calls got the same responses; an audio
\* request whose discovery or inference response makes bhashini_asr raise
\* calls neither translation nor synthesis.
C19_AudioDelegatesToText ==
    \A r \in Requests :
        entry[r] = "audio" =>
            /\ pc[r] = "done" =>
                /\ text[r] = calls[r][2].resp.body.output
                /\ calls[r][2].req.sourceLanguage = lang[r]
                /\ calls[r][3].req.inputText = text[r]
                /\ calls[r][3].req.inputLanguage = lang[r]
                /\ \A q \in Requests :
                    (/\ entry[q] = "text" /\ pc[q] = "done"
                     /\ text[q] = text[r] /\ lang[q] = lang[r]
                     /\ \A j \in 1..3 : calls[q][j].resp = calls[r][j + 2].resp) =>
                        /\ result[q] = result[r]
                        /\ \A j \in 1..3 : calls[q][j].req = calls[r][j + 2].req
            /\ \A i \in 1..Len(calls[r]) :
                (i <= 2 /\ AsrBadResponse(calls[r][i])) =>
                    /\ CountOf(r, "translate") = 0
                    /\ CountOf(r, "tts") = 0
                    /\ pc[r] = "failed"

\* C19 witness: an audio request and a text request with the transcript as
\* text, same language and same responses, both returned
C19_Witness ==
    \E r, q \in Requests :
        /\ entry[r] = "audio" /\ pc[r] = "done"
        /\ entry[q] = "text" /\ pc[q] = "done"
        /\ text[q] = text[r] /\ lang[q] = lang[r]
        /\ \A j \in 1..3 : calls[q][j].resp = calls[r][j + 2].resp

====
